---- MODULE Spec2Model ----
(***************************************************************************)
(* Counting semaphore of src/unnamed/part_000 (class Semaphore).           *)
(*                                                                         *)
(* The program runs on one JavaScript thread.  A call of acquire() or      *)
(* release() runs synchronously up to its first await; every continuation  *)
(* after an await is a job of the promise job queue, and the jobs run one  *)
(* at a time in FIFO order.  The model keeps that queue (jobs) explicitly: *)
(* one action per synchronous stretch of the code, i.e. one per call and   *)
(* one per kind of job.                                                    *)
(***************************************************************************)
EXTENDS Integers, Sequences, FiniteSets

\* Number of acquire()/release() calls issued in one behaviour.
MaxCalls == 7
\* Largest capacity passed to the constructor.
MaxCap == 2
\* The constructor arguments tried are -MaxNeg..MaxCap.
MaxNeg == 2

Calls == 1..MaxCalls

VARIABLES
    instance,       \* the constructor call: its argument and whether it returned or threw
    permits,        \* this._permits
    maxPermits,     \* this._maxPermits
    waiting,        \* this.waiting: the resolve callbacks, named by their acquire call
    lockTail,       \* the call whose chained promise is this._lock (0: the initial Promise.resolve())
    previousLock,   \* per call: the call whose chained promise it awaits in _acquireLock
    lockSt,         \* per call: state of the promise `lock` created in _acquireLock
    lockLinked,     \* per call: the async callback's promise is subscribed to `lock`
    innerDone,      \* per call: the promise of `async () => lock` is fulfilled
    innerLinked,    \* per call: the chained promise is subscribed to the async callback's promise
    chainDone,      \* per call (and 0): the chained promise this._lock.then(...) is fulfilled
    jobs,           \* the promise job queue
    kind,           \* per call: "acquire" or "release" ("none": not issued)
    pc,             \* per call: where the call is
    outcome,        \* per call: how its promise settled
    nextCall,       \* the next call to be issued
    holding,        \* acquire calls that completed and whose caller has not called release yet
    owner,          \* per release call: the acquire whose permit it returns (0: none)
    path,           \* per call: the branch its critical section took
    wokenBy,        \* per queued acquire: the release that resolved it
    entered,        \* the calls in the order their critical sections ran
    completed       \* the acquire calls in the order they completed

semVars == <<instance, permits, maxPermits, waiting>>
lockVars == <<lockTail, previousLock, lockSt, lockLinked, innerDone, innerLinked, chainDone>>
callVars == <<kind, pc, outcome, nextCall, holding, owner>>
histVars == <<path, wokenBy, entered, completed>>
vars == <<instance, permits, maxPermits, waiting, lockTail, previousLock, lockSt, lockLinked,
          innerDone, innerLinked, chainDone, jobs, kind, pc, outcome, nextCall,
          holding, owner, path, wokenBy, entered, completed>>

Job(t, c) == [type |-> t, call |-> c]

TypeOK ==
    /\ instance \in [st : {"new", "made", "failed"}, arg : (0 - MaxNeg)..MaxCap]
    /\ permits \in Int
    /\ maxPermits \in 0..MaxCap
    /\ waiting \in Seq(Calls)
    /\ lockTail \in 0..MaxCalls
    /\ previousLock \in [Calls -> 0..MaxCalls]
    /\ lockSt \in [Calls -> {"none", "pending", "resolved"}]
    /\ lockLinked \in [Calls -> BOOLEAN]
    /\ innerDone \in [Calls -> BOOLEAN]
    /\ innerLinked \in [Calls -> BOOLEAN]
    /\ chainDone \in [0..MaxCalls -> BOOLEAN]
    /\ kind \in [Calls -> {"none", "acquire", "release"}]
    /\ pc \in [Calls -> {"idle", "lockwait", "locked", "queued", "resolved", "done"}]
    /\ outcome \in [Calls -> {"none", "ok", "error"}]
    /\ nextCall \in 1..(MaxCalls + 1)
    /\ holding \subseteq Calls
    /\ owner \in [Calls -> 0..MaxCalls]

\* constructor (permits >= 0): permits = maxPermits, empty queue, _lock = Promise.resolve()
Init ==
    /\ maxPermits \in 0..MaxCap
    /\ instance = [st |-> "made", arg |-> maxPermits]
    /\ permits = maxPermits
    /\ waiting = <<>>
    /\ lockTail = 0
    /\ previousLock = [c \in Calls |-> 0]
    /\ lockSt = [c \in Calls |-> "none"]
    /\ lockLinked = [c \in Calls |-> FALSE]
    /\ innerDone = [c \in Calls |-> FALSE]
    /\ innerLinked = [c \in Calls |-> FALSE]
    /\ chainDone = [c \in 0..MaxCalls |-> c = 0]
    /\ jobs = <<>>
    /\ kind = [c \in Calls |-> "none"]
    /\ pc = [c \in Calls |-> "idle"]
    /\ outcome = [c \in Calls |-> "none"]
    /\ nextCall = 1
    /\ holding = {}
    /\ owner = [c \in Calls |-> 0]
    /\ path = [c \in Calls |-> "none"]
    /\ wokenBy = [c \in Calls |-> 0]
    /\ entered = <<>>
    /\ completed = <<>>

(***************************************************************************)
(* _acquireLock, synchronous part (lines 129-138): create `lock`, chain    *)
(* this._lock = this._lock.then(async () => lock), await the previous      *)
(* chained promise.  A then/await on a promise that is already fulfilled   *)
(* queues its reaction job at once; otherwise the reaction is queued when  *)
(* the promise is fulfilled (SettleChain).                                 *)
(***************************************************************************)
\* Before the constructor has run there is no object: the fields hold placeholders.
InitNew ==
    /\ instance \in [st : {"new"}, arg : (0 - MaxNeg)..MaxCap]
    /\ maxPermits = 0
    /\ permits = 0
    /\ waiting = <<>>
    /\ lockTail = 0
    /\ previousLock = [c \in Calls |-> 0]
    /\ lockSt = [c \in Calls |-> "none"]
    /\ lockLinked = [c \in Calls |-> FALSE]
    /\ innerDone = [c \in Calls |-> FALSE]
    /\ innerLinked = [c \in Calls |-> FALSE]
    /\ chainDone = [c \in 0..MaxCalls |-> FALSE]
    /\ jobs = <<>>
    /\ kind = [c \in Calls |-> "none"]
    /\ pc = [c \in Calls |-> "idle"]
    /\ outcome = [c \in Calls |-> "none"]
    /\ nextCall = 1
    /\ holding = {}
    /\ owner = [c \in Calls |-> 0]
    /\ path = [c \in Calls |-> "none"]
    /\ wokenBy = [c \in Calls |-> 0]
    /\ entered = <<>>
    /\ completed = <<>>

\* zero is rejected too
ConstructorRejectsZero(n) == n <= 0

\* line 18
ConstructorRejects(n) == n < 0

\* constructor, lines 17-29, and the field initialisers of lines 11 and 15: throw on
\* a negative argument, else _permits = _maxPermits = permits, waiting = [] and
\* _lock = Promise.resolve().
Construct ==
    /\ instance.st = "new"
    /\ IF ConstructorRejects(instance.arg)
         THEN /\ instance' = [instance EXCEPT !.st = "failed"]
              /\ UNCHANGED <<permits, maxPermits, waiting, lockTail, chainDone>>
         ELSE /\ instance' = [instance EXCEPT !.st = "made"]
              /\ permits' = instance.arg
              /\ maxPermits' = instance.arg
              /\ waiting' = <<>>
              /\ lockTail' = 0
              /\ chainDone' = [chainDone EXCEPT ![0] = TRUE]
    /\ UNCHANGED <<previousLock, lockSt, lockLinked, innerDone, innerLinked, jobs, kind,
                   pc, outcome, nextCall, holding, owner, path, wokenBy, entered, completed>>

\* `await previousLock` is missing: the call goes on without waiting for its predecessor
LinkLockNoWait(c) ==
    /\ previousLock' = [previousLock EXCEPT ![c] = lockTail]
    /\ lockSt' = [lockSt EXCEPT ![c] = "pending"]
    /\ lockTail' = c
    /\ jobs' = jobs \o <<Job("thenCallback", c), Job("lockResume", c)>>
    /\ UNCHANGED <<lockLinked, innerDone, innerLinked, chainDone>>

LinkLock(c) ==
    /\ previousLock' = [previousLock EXCEPT ![c] = lockTail]
    /\ lockSt' = [lockSt EXCEPT ![c] = "pending"]
    /\ lockTail' = c
    /\ jobs' = jobs \o (IF chainDone[lockTail]
                          THEN <<Job("thenCallback", c), Job("lockResume", c)>>
                          ELSE <<>>)
    /\ UNCHANGED <<lockLinked, innerDone, innerLinked, chainDone>>

\* releaseLock() is never called: `lock` stays pending
ReleaseLockJobsNone(c) == <<>>

\* releaseLock() (lines 65, 120): resolve `lock`; its subscriber, if any, gets a job.
ReleaseLockJobs(c) ==
    IF lockLinked[c] THEN <<Job("settleInner", c)>> ELSE <<>>

\* A caller calls acquire(): lines 36-37 up to the await.
CallAcquire ==
    /\ instance.st = "made"
    /\ nextCall <= MaxCalls
    /\ LinkLock(nextCall)
    /\ kind' = [kind EXCEPT ![nextCall] = "acquire"]
    /\ pc' = [pc EXCEPT ![nextCall] = "lockwait"]
    /\ nextCall' = nextCall + 1
    /\ UNCHANGED <<semVars, outcome, holding, owner, histVars>>

\* A caller that holds a permit calls release(): lines 84-85 up to the await.
CallReleaseHolder ==
    /\ instance.st = "made"
    /\ nextCall <= MaxCalls
    /\ \E h \in holding :
        /\ holding' = holding \ {h}
        /\ owner' = [owner EXCEPT ![nextCall] = h]
    /\ LinkLock(nextCall)
    /\ kind' = [kind EXCEPT ![nextCall] = "release"]
    /\ pc' = [pc EXCEPT ![nextCall] = "lockwait"]
    /\ nextCall' = nextCall + 1
    /\ UNCHANGED <<semVars, outcome, histVars>>

\* A caller that holds no permit calls release().
CallReleaseUnpaired ==
    /\ instance.st = "made"
    /\ nextCall <= MaxCalls
    /\ LinkLock(nextCall)
    /\ kind' = [kind EXCEPT ![nextCall] = "release"]
    /\ pc' = [pc EXCEPT ![nextCall] = "lockwait"]
    /\ nextCall' = nextCall + 1
    /\ UNCHANGED <<semVars, outcome, holding, owner, histVars>>

HeadIs(t) == jobs /= <<>> /\ Head(jobs).type = t
HeadCall == Head(jobs).call

(***************************************************************************)
(* The promise chain of line 136, this._lock.then(async () => lock).       *)
(***************************************************************************)
\* The then-callback runs: the async arrow returns `lock`, so its promise adopts
\* `lock`; the chained promise adopts the arrow's promise.  Both adoptions are jobs.
ThenCallback ==
    /\ HeadIs("thenCallback")
    /\ jobs' = Tail(jobs) \o <<Job("adoptLock", HeadCall), Job("adoptInner", HeadCall)>>
    /\ UNCHANGED <<semVars, lockVars, callVars, histVars>>

\* lock.then(resolve of the arrow's promise)
AdoptLock ==
    /\ HeadIs("adoptLock")
    /\ IF lockSt[HeadCall] = "resolved"
         THEN /\ jobs' = Tail(jobs) \o <<Job("settleInner", HeadCall)>>
              /\ UNCHANGED lockLinked
         ELSE /\ jobs' = Tail(jobs)
              /\ lockLinked' = [lockLinked EXCEPT ![HeadCall] = TRUE]
    /\ UNCHANGED <<semVars, lockTail, previousLock, lockSt, innerDone, innerLinked,
                   chainDone, callVars, histVars>>

\* (the arrow's promise).then(resolve of the chained promise)
AdoptInner ==
    /\ HeadIs("adoptInner")
    /\ IF innerDone[HeadCall]
         THEN /\ jobs' = Tail(jobs) \o <<Job("settleChain", HeadCall)>>
              /\ UNCHANGED innerLinked
         ELSE /\ jobs' = Tail(jobs)
              /\ innerLinked' = [innerLinked EXCEPT ![HeadCall] = TRUE]
    /\ UNCHANGED <<semVars, lockTail, previousLock, lockSt, lockLinked, innerDone,
                   chainDone, callVars, histVars>>

\* `lock` was resolved: the arrow's promise is fulfilled.
SettleInner ==
    /\ HeadIs("settleInner")
    /\ innerDone' = [innerDone EXCEPT ![HeadCall] = TRUE]
    /\ jobs' = Tail(jobs) \o (IF innerLinked[HeadCall]
                                THEN <<Job("settleChain", HeadCall)>> ELSE <<>>)
    /\ UNCHANGED <<semVars, lockTail, previousLock, lockSt, lockLinked, innerLinked,
                   chainDone, callVars, histVars>>

\* the call linked last is resumed in place of the successor of call c
ChainReactionsNewest(c) ==
    IF pc[lockTail] = "lockwait"
      THEN <<Job("thenCallback", lockTail), Job("lockResume", lockTail)>>
      ELSE <<>>

\* The reactions subscribed to the chained promise of call c, in subscription order:
\* the next call's then-callback (line 136), then its await (line 138).
ChainReactions(c) ==
    IF \E d \in Calls : pc[d] /= "idle" /\ previousLock[d] = c
      THEN LET d == CHOOSE d \in Calls : pc[d] /= "idle" /\ previousLock[d] = c
           IN <<Job("thenCallback", d), Job("lockResume", d)>>
      ELSE <<>>

\* The chained promise of the call is fulfilled.
SettleChain ==
    /\ HeadIs("settleChain")
    /\ chainDone' = [chainDone EXCEPT ![HeadCall] = TRUE]
    /\ jobs' = Tail(jobs) \o ChainReactions(HeadCall)
    /\ UNCHANGED <<semVars, lockTail, previousLock, lockSt, lockLinked, innerDone,
                   innerLinked, callVars, histVars>>

\* _acquireLock resumes after `await previousLock` and returns `release` (lines 138-139);
\* the awaiting acquire()/release() gets its continuation job.
LockResume ==
    /\ HeadIs("lockResume")
    /\ pc[HeadCall] = "lockwait"
    /\ pc' = [pc EXCEPT ![HeadCall] = "locked"]
    /\ jobs' = Tail(jobs) \o <<Job("enter", HeadCall)>>
    /\ UNCHANGED <<semVars, lockVars, kind, outcome, nextCall, holding, owner, histVars>>

(***************************************************************************)
(* acquire(), lines 37-72: the critical section, releaseLock() and, when   *)
(* no permit is left, the push of the resolve callback.  All of it is one  *)
(* synchronous stretch.                                                    *)
(***************************************************************************)
\* a permit is granted even when none is left
AcquireGrantedAtZero(p) == p >= 0

\* line 48
AcquireGranted(p) == p > 0

\* the decrement of line 49 is missing
AcquireTakeNone(p) == p

\* line 49
AcquireTake(p) == p - 1

\* the resolve callback is not stored
AcquirePushLost(q, c) == q

\* line 71
AcquirePush(q, c) == Append(q, c)

AcquireCritical ==
    /\ HeadIs("enter")
    /\ kind[HeadCall] = "acquire"
    /\ pc[HeadCall] = "locked"
    /\ LET c == HeadCall IN
        /\ IF AcquireGranted(permits)
             THEN /\ permits' = AcquireTake(permits)
                  /\ waiting' = waiting
                  /\ pc' = [pc EXCEPT ![c] = "done"]
                  /\ outcome' = [outcome EXCEPT ![c] = "ok"]
                  /\ holding' = holding \cup {c}
                  /\ path' = [path EXCEPT ![c] = "fast"]
                  /\ completed' = Append(completed, c)
             ELSE /\ permits' = permits
                  /\ waiting' = AcquirePush(waiting, c)
                  /\ pc' = [pc EXCEPT ![c] = "queued"]
                  /\ path' = [path EXCEPT ![c] = "queue"]
                  /\ UNCHANGED <<outcome, holding, completed>>
        /\ lockSt' = [lockSt EXCEPT ![c] = "resolved"]
        /\ jobs' = Tail(jobs) \o ReleaseLockJobs(c)
        /\ entered' = Append(entered, c)
    /\ UNCHANGED <<instance, maxPermits, lockTail, previousLock, lockLinked, innerDone, innerLinked,
                   chainDone, kind, nextCall, owner, wokenBy>>

\* acquire(), lines 74-77: the continuation after the queued promise was resolved.
AcquireWake ==
    /\ HeadIs("wake")
    /\ pc[HeadCall] = "resolved"
    /\ pc' = [pc EXCEPT ![HeadCall] = "done"]
    /\ outcome' = [outcome EXCEPT ![HeadCall] = "ok"]
    /\ holding' = holding \cup {HeadCall}
    /\ completed' = Append(completed, HeadCall)
    /\ jobs' = Tail(jobs)
    /\ UNCHANGED <<semVars, lockVars, kind, nextCall, owner, path, wokenBy, entered>>

(***************************************************************************)
(* release(), lines 85-121.                                                *)
(***************************************************************************)
\* the queue is never looked at
ReleaseNeverHandsOff(q) == FALSE

\* line 92
ReleaseHandsOff(q) == Len(q) > 0

\* pop() in place of shift(): the newest waiter is taken
ReleasePop(q) == [next |-> q[Len(q)], rest |-> SubSeq(q, 1, Len(q) - 1)]

\* this.waiting[0] in place of shift(): the head is resolved but stays on the queue
ReleasePeek(q) == [next |-> Head(q), rest |-> q]

\* line 94: this.waiting.shift() removes and returns the head
ReleaseShift(q) == [next |-> Head(q), rest |-> Tail(q)]

\* the return of line 101 is missing: the handoff falls through to the increment
HandoffFallsThrough(p, m) == IF p < m THEN p + 1 ELSE p

\* lines 99-101: resolve() and return; the counter is not touched
HandoffPermits(p, m) == p

\* the increment without the test of line 106
ReleasePermitsNoCap(p, m) == p + 1

\* the test of line 106 off by one, stopping one short of the capacity
ReleasePermitsShort(p, m) == IF p + 1 < m THEN p + 1 ELSE p

\* the test of line 106 with <= for <
ReleasePermitsInclusive(p, m) == IF p <= m THEN p + 1 ELSE p

\* lines 106-118
ReleasePermits(p, m) == IF p < m THEN p + 1 ELSE p

\* the over-release branch throws
ReleaseThrowsAtCap(p, m) == IF p < m THEN "ok" ELSE "error"

\* lines 111-118: the over-release branch only warns; nothing in release() throws
ReleaseOutcome(p, m) == "ok"

ReleaseCritical ==
    /\ HeadIs("enter")
    /\ kind[HeadCall] = "release"
    /\ pc[HeadCall] = "locked"
    /\ LET c == HeadCall IN
        /\ IF ReleaseHandsOff(waiting)
             THEN LET w == ReleaseShift(waiting).next IN
                  /\ waiting' = ReleaseShift(waiting).rest
                  /\ permits' = HandoffPermits(permits, maxPermits)
                  /\ pc' = [pc EXCEPT ![c] = "done", ![w] = "resolved"]
                  /\ outcome' = [outcome EXCEPT ![c] = "ok"]
                  /\ wokenBy' = [wokenBy EXCEPT ![w] = c]
                  /\ path' = [path EXCEPT ![c] = "handoff"]
                  /\ jobs' = (Tail(jobs) \o <<Job("wake", w)>>) \o ReleaseLockJobs(c)
             ELSE /\ waiting' = waiting
                  /\ permits' = ReleasePermits(permits, maxPermits)
                  /\ pc' = [pc EXCEPT ![c] = "done"]
                  /\ outcome' = [outcome EXCEPT ![c] = ReleaseOutcome(permits, maxPermits)]
                  /\ wokenBy' = wokenBy
                  /\ path' = [path EXCEPT ![c] =
                                 IF permits < maxPermits THEN "increment" ELSE "absorb"]
                  /\ jobs' = Tail(jobs) \o ReleaseLockJobs(c)
        /\ lockSt' = [lockSt EXCEPT ![c] = "resolved"]
        /\ entered' = Append(entered, c)
    /\ UNCHANGED <<instance, maxPermits, lockTail, previousLock, lockLinked, innerDone, innerLinked,
                   chainDone, kind, nextCall, holding, owner, completed>>

RunJob ==
    \/ ThenCallback
    \/ AdoptLock
    \/ AdoptInner
    \/ SettleInner
    \/ SettleChain
    \/ LockResume
    \/ AcquireCritical
    \/ AcquireWake
    \/ ReleaseCritical

\* Any caller may call acquire or release at any time between two jobs.
Next ==
    \/ CallAcquire
    \/ CallReleaseHolder
    \/ CallReleaseUnpaired
    \/ RunJob

Spec == Init /\ [][Next]_vars

(***************************************************************************)
(* Callers that follow the acquire/release discipline: release is called   *)
(* only by a caller that holds a permit.                                   *)
(***************************************************************************)
NextPaired ==
    \/ CallAcquire
    \/ CallReleaseHolder
    \/ RunJob

SpecPaired == Init /\ [][NextPaired]_vars

(***************************************************************************)
(* The same program with the constructor call as its first step.           *)
(***************************************************************************)
NextNew ==
    \/ Construct
    \/ CallAcquire
    \/ CallReleaseHolder
    \/ CallReleaseUnpaired
    \/ RunJob

SpecNew == InitNew /\ [][NextNew]_vars

(***************************************************************************)
(* Any callers, with a job queue that always runs its next job.            *)
(***************************************************************************)
SpecFair == Init /\ [][Next]_vars /\ WF_vars(RunJob)

(***************************************************************************)
(* Disciplined callers that also release every permit they get.  An        *)
(* acquire is issued only while enough calls are left for the release of   *)
(* every permit asked for, so that the bound on the calls never keeps a    *)
(* holder from releasing.  The job queue always runs (WF of RunJob) and a  *)
(* holder eventually calls release (WF of CallReleaseHolder).              *)
(***************************************************************************)
Outstanding ==
    Cardinality({c \in Calls : kind[c] = "acquire"})
        - Cardinality({c \in Calls : kind[c] = "release"})

RoomForRelease == MaxCalls - nextCall >= Outstanding + 1

NextLive ==
    \/ CallAcquire /\ RoomForRelease
    \/ CallReleaseHolder
    \/ RunJob

SpecLive ==
    /\ Init
    /\ [][NextLive]_vars
    /\ WF_vars(RunJob)
    /\ WF_vars(CallReleaseHolder)

(***************************************************************************)
(* Properties                                                              *)
(***************************************************************************)
Acquires == {c \in Calls : kind[c] = "acquire"}
Releases == {c \in Calls : kind[c] = "release"}
Pos(s, x) == CHOOSE i \in 1..Len(s) : s[i] = x
\* the critical section of call c runs in this step
RunsCritical(c) == pc[c] = "locked" /\ pc'[c] /= "locked"

\* C1: with releases issued only by holders, the number of callers that hold a
\* permit (acquire completed, release not yet called) never exceeds maxPermits.
BoundedHolders == Cardinality(holding) <= maxPermits

\* C1 witness: capacity 2 fully held, one holder having got its permit by a handoff,
\* while a further acquire is queued.
BoundedHoldersWitness ==
    /\ maxPermits = 2
    /\ Cardinality(holding) = 2
    /\ \E c \in holding : wokenBy[c] /= 0
    /\ waiting /= <<>>

\* C2: in every reachable state, whatever acquires and releases (paired or not)
\* were issued, 0 <= permits <= maxPermits.
PermitsInRange == 0 <= permits /\ permits <= maxPermits

\* C2 witness: a release by a caller holding nothing ran at capacity, and another
\* acquire ran when no permit was left.
PermitsInRangeWitness ==
    /\ maxPermits >= 1
    /\ permits = maxPermits
    /\ \E r \in Releases : owner[r] = 0 /\ path[r] = "absorb"
    /\ \E a \in Acquires : path[a] = "queue"

\* C3: whenever the wait queue is non-empty, permits = 0.
QueueImpliesNoPermits == waiting /= <<>> => permits = 0

\* C3 witness: a release has handed a permit over and two acquires still wait.
QueueImpliesNoPermitsWitness ==
    /\ maxPermits >= 1
    /\ Len(waiting) >= 2
    /\ \E r \in Releases : path[r] = "handoff"

\* C4: acquire calls complete in the order in which they were issued; in
\* particular n acquires issued while fewer than n permits are available complete
\* in issue order, whatever releases follow.
FifoCompletion ==
    \A i, j \in 1..Len(completed) : i < j => completed[i] < completed[j]

\* C4 witness: the capacity was exhausted, three more acquires queued, and all
\* three completed through releases.
FifoCompletionWitness ==
    /\ maxPermits >= 1
    /\ Cardinality({c \in Acquires : path[c] = "queue" /\ pc[c] = "done"}) >= 3
    /\ \E c \in Acquires : path[c] = "fast"

\* C5: a release whose critical section runs while the queue is non-empty removes
\* exactly the head of the queue, resolves exactly that acquire (one wake job, no
\* other call moves), keeps the other entries in order and leaves permits at 0.
DirectHandoff ==
    [][\A c \in Calls :
        (kind[c] = "release" /\ RunsCritical(c) /\ waiting /= <<>>) =>
            /\ waiting' = Tail(waiting)
            /\ pc[Head(waiting)] = "queued"
            /\ pc'[Head(waiting)] = "resolved"
            /\ \A d \in Calls \ {c, Head(waiting)} : pc'[d] = pc[d]
            /\ Cardinality({i \in 1..Len(jobs') : jobs'[i].type = "wake"})
                 = Cardinality({i \in 1..Len(jobs) : jobs[i].type = "wake"}) + 1
            /\ \E i \in 1..Len(jobs') : jobs'[i] = Job("wake", Head(waiting))
            /\ permits = 0
            /\ permits' = 0]_vars

\* C5 witness: a release has just resolved the head of a queue of at least two.
DirectHandoffWitness ==
    /\ maxPermits >= 1
    /\ waiting /= <<>>
    /\ \E c \in Acquires : pc[c] = "resolved" /\ c < Head(waiting)

Conservation ==
    ( /\ \A c \in Acquires \cup Releases : pc[c] = "done"
      /\ Cardinality(Acquires) = Cardinality(Releases)
      /\ Cardinality(Acquires) <= maxPermits
      /\ \A a \in Acquires : \A r \in Releases : a < r )
    => (permits = maxPermits /\ waiting = <<>>)

\* C8 witness: N = 2 and k = 2; both acquires and both releases have completed.
ConservationWitness ==
    /\ maxPermits = 2
    /\ Acquires = {1, 2}
    /\ Releases = {3, 4}
    /\ \A c \in 1..4 : pc[c] = "done"

\* C9: for capacity >= 1, when holders always release and the steps are weakly
\* fair, every acquire call eventually completes.
AcquireCompletes ==
    \A c \in Calls : (maxPermits >= 1 /\ kind[c] = "acquire") ~> (pc[c] = "done")

\* C9 witness: an acquire that had to queue has completed.
AcquireCompletesWitness ==
    /\ maxPermits >= 1
    /\ \E c \in Acquires : path[c] = "queue" /\ pc[c] = "done"

\* C10: with capacity 0, permits stays 0, every acquire whose critical section ran
\* was queued (none took the counter path), a queued acquire is resolved only by a
\* release whose critical section ran after the acquire's, and a release that ran
\* on an empty queue leaves nothing behind: it never increments the counter and
\* resolves nobody.
CapacityZero ==
    maxPermits = 0 =>
        /\ permits = 0
        /\ \A a \in Acquires :
            /\ path[a] \in {"none", "queue"}
            /\ pc[a] \in {"resolved", "done"} =>
                /\ wokenBy[a] \in Releases
                /\ path[wokenBy[a]] = "handoff"
                /\ Pos(entered, a) < Pos(entered, wokenBy[a])
                /\ \A b \in Acquires \ {a} : wokenBy[b] /= wokenBy[a]
        /\ \A r \in Releases : path[r] \in {"none", "handoff", "absorb"}

\* C10 witness: capacity 0, a release ran on an empty queue, a later acquire
\* queued all the same and completed through a later release.
CapacityZeroWitness ==
    /\ maxPermits = 0
    /\ \E r \in Releases : \E a \in Acquires :
        /\ path[r] = "absorb"
        /\ r < a
        /\ pc[a] = "done"
        /\ wokenBy[a] > a

\* C11: the constructor with n >= 0 returns an instance with permits =
\* maxPermits = n, an empty wait queue and a free lock (this._lock is the
\* fulfilled initial promise and nothing is chained on it); with n < 0 it throws
\* and there is no instance: no acquire or release call is ever issued.
Construction ==
    /\ instance.st = "made" =>
        /\ instance.arg >= 0
        /\ maxPermits = instance.arg
        /\ nextCall = 1 =>
            /\ permits = instance.arg
            /\ waiting = <<>>
            /\ lockTail = 0
            /\ chainDone[0]
            /\ jobs = <<>>
    /\ instance.st = "failed" =>
        /\ instance.arg < 0
        /\ nextCall = 1
        /\ jobs = <<>>
        /\ \A c \in Calls : kind[c] = "none" /\ pc[c] = "idle"
    /\ instance.st = "new" => nextCall = 1

\* C11 witness: the constructor has just returned an instance for n = 2.
ConstructionWitness ==
    /\ instance = [st |-> "made", arg |-> 2]
    /\ permits = 2
    /\ maxPermits = 2
    /\ nextCall = 1

\* C12: an acquire whose critical section runs while permits > 0 decrements
\* permits by exactly 1, leaves the wait queue and maxPermits as they are, is not
\* put on the wait queue and completes in that very step, with no release needed;
\* an acquire granted this way is never on the queue nor resolved by a release.
FastPathAcquire ==
    /\ [][\A c \in Calls :
            (kind[c] = "acquire" /\ RunsCritical(c) /\ permits > 0) =>
                /\ permits' = permits - 1
                /\ waiting' = waiting
                /\ maxPermits' = maxPermits
                /\ pc'[c] = "done"
                /\ outcome'[c] = "ok"
                /\ c \in holding']_vars
    /\ [](\A c \in Acquires :
            path[c] = "fast" =>
                /\ wokenBy[c] = 0
                /\ \A i \in 1..Len(waiting) : waiting[i] /= c)

\* C12 witness: an acquire has taken the last permit of capacity 2 while no
\* release has been called at all.
FastPathAcquireWitness ==
    /\ maxPermits = 2
    /\ permits = 0
    /\ Releases = {}
    /\ \E c \in Acquires : path[c] = "fast" /\ pc[c] = "done" /\ c >= 2

\* C13: at most one call is inside the critical section, i.e. has returned from
\* _acquireLock and not yet called releaseLock.
LockMutualExclusion ==
    Cardinality({c \in Calls : pc[c] = "locked"}) <= 1

\* C13 witness: one call is inside the critical section while three calls issued
\* after it wait for the lock.
LockMutualExclusionWitness ==
    /\ Cardinality({c \in Calls : pc[c] = "locked"}) = 1
    /\ Cardinality({c \in Calls : pc[c] = "lockwait"}) >= 3

\* C14: the critical sections run in exactly the order in which the calls were
\* issued (calls are numbered in the order they link onto the _lock chain),
\* acquires and releases alike.
FcfsAdmission ==
    \A i \in 1..Len(entered) : entered[i] = i

\* C14 witness: four critical sections of both kinds have run while further calls
\* of both kinds are linked behind them.
FcfsAdmissionWitness ==
    /\ Len(entered) >= 4
    /\ \E i, j \in 1..Len(entered) :
        kind[entered[i]] = "acquire" /\ kind[entered[j]] = "release"
    /\ \E c, d \in Calls :
        /\ pc[c] = "lockwait" /\ kind[c] = "acquire"
        /\ pc[d] = "lockwait" /\ kind[d] = "release"

\* a call that is linked onto the lock chain and has not finished its critical section
LockPending(c) == pc[c] \in {"lockwait", "locked"}

\* C15: every call that runs its critical section resolves its `lock` on the way
\* out, whichever branch it took, and the chain is told; so, with the job queue
\* always running, every issued call eventually runs its critical section and
\* every release call eventually completes, however many acquires are suspended
\* on the wait queue.  (A call that has run its critical section never waits for
\* the lock again and a release is complete once its critical section has run, so
\* "no call stays pending for ever" is stated as: again and again no issued call
\* is pending.)
LockNeverHeldForever ==
    /\ [][\A c \in Calls :
            RunsCritical(c) =>
                /\ path'[c] \in {"fast", "queue", "handoff", "increment", "absorb"}
                /\ lockSt'[c] = "resolved"
                /\ \E i \in 1..Len(jobs') : jobs'[i] = Job("settleInner", c)
                /\ kind[c] = "release" => pc'[c] = "done"]_vars
    /\ []<>(\A c \in Calls : ~LockPending(c))

\* C15 witness: two acquires are suspended on the wait queue, and a release and
\* a further call issued after them have run their critical sections.
LockNeverHeldForeverWitness ==
    /\ Len(waiting) >= 2
    /\ \E r \in Releases : \E c \in Calls :
        /\ pc[r] = "done"
        /\ waiting[1] < r
        /\ waiting[2] < r
        /\ r < c
        /\ path[c] /= "none"

\* the acquire has obtained a permit: by the counter, or by a release that resolved it
Granted(a) == path[a] = "fast" \/ wokenBy[a] /= 0
\* the position in `entered` of the critical section that granted it
GrantPos(a) == IF path[a] = "fast" THEN Pos(entered, a) ELSE Pos(entered, wokenBy[a])
InQueue(q, c) == \E i \in 1..Len(q) : q[i] = c

\* C16: an acquire whose critical section runs while the wait queue is non-empty
\* never takes the counter path: it is appended behind all waiters and permits is
\* untouched; and whenever an acquire issued after a queued acquire has obtained
\* a permit, the queued one was handed its permit by an earlier critical section.
NoBarging ==
    /\ [][\A c \in Calls :
            (kind[c] = "acquire" /\ RunsCritical(c) /\ waiting /= <<>>) =>
                /\ waiting' = Append(waiting, c)
                /\ permits' = permits
                /\ pc'[c] = "queued"]_vars
    /\ [](\A a, b \in Acquires :
            (a < b /\ path[a] = "queue" /\ Granted(b)) =>
                /\ wokenBy[a] /= 0
                /\ GrantPos(a) < GrantPos(b))

\* C16 witness: two acquires queued one behind the other, both were resolved by
\* releases, and an acquire issued later then took a permit from the counter.
NoBargingWitness ==
    \E a1, a2, b \in Acquires :
        /\ a1 < a2 /\ a2 < b
        /\ path[a1] = "queue" /\ path[a2] = "queue"
        /\ wokenBy[a1] /= 0 /\ wokenBy[a2] /= 0
        /\ path[b] = "fast"

\* C17: a queued acquire completes only after a release has removed its entry:
\* it is resolved by a release critical section that ran after its own, it is
\* then no longer on the queue, it has at most one wake job, no release resolves
\* two acquires, and the queued acquires that completed are at most as many as
\* the releases whose critical section ran.
NoSpuriousWakeup ==
    /\ \A a \in Acquires :
        /\ pc[a] = "queued" =>
            /\ wokenBy[a] = 0
            /\ Cardinality({i \in 1..Len(waiting) : waiting[i] = a}) = 1
        /\ (path[a] = "queue" /\ pc[a] \in {"resolved", "done"}) =>
            /\ wokenBy[a] \in Releases
            /\ path[wokenBy[a]] = "handoff"
            /\ Pos(entered, a) < Pos(entered, wokenBy[a])
            /\ ~InQueue(waiting, a)
        /\ Cardinality({i \in 1..Len(jobs) : jobs[i] = Job("wake", a)})
             = (IF pc[a] = "resolved" THEN 1 ELSE 0)
    /\ \A a, b \in Acquires : (a /= b /\ wokenBy[a] /= 0) => wokenBy[a] /= wokenBy[b]
    /\ Cardinality({a \in Acquires : path[a] = "queue" /\ pc[a] = "done"})
         <= Cardinality({r \in Releases : path[r] /= "none"})

\* C17 witness: two queued acquires have completed through exactly two releases
\* while another acquire is still suspended.
NoSpuriousWakeupWitness ==
    /\ Cardinality({a \in Acquires : path[a] = "queue" /\ pc[a] = "done"}) = 2
    /\ Cardinality({r \in Releases : path[r] /= "none"}) = 2
    /\ \E a \in Acquires : pc[a] = "queued"

\* C18: an acquire that finds permits = 0 resolves its `lock` and pushes its entry
\* in one and the same synchronous stretch (lines 65-72 hold no await and the
\* promise executor runs at once), so no other critical section runs in between:
\* every acquire that decided to wait and is not yet resolved is on the queue,
\* every queue entry belongs to a call that has released the lock, and a release
\* that runs while such an acquire exists hands a permit over; it never
\* increments the counter nor takes the over-release branch.
CheckAndEnqueueAtomic ==
    /\ [][\A c \in Calls :
            /\ (kind[c] = "acquire" /\ RunsCritical(c) /\ permits = 0) =>
                /\ lockSt[c] = "pending"
                /\ lockSt'[c] = "resolved"
                /\ waiting' = Append(waiting, c)
                /\ entered' = Append(entered, c)
            /\ (kind[c] = "release" /\ RunsCritical(c)
                  /\ \E a \in Acquires : path[a] = "queue" /\ wokenBy[a] = 0) =>
                /\ permits' = permits
                /\ Len(waiting') = Len(waiting) - 1
                /\ \E a \in Acquires : wokenBy[a] = 0 /\ wokenBy'[a] = c]_vars
    /\ [](\A a \in Acquires :
            /\ (path[a] = "queue" /\ wokenBy[a] = 0) => InQueue(waiting, a)
            /\ InQueue(waiting, a) => lockSt[a] = "resolved")

\* C18 witness: with capacity >= 1, an acquire found no permit and the very next
\* critical section, a release, resolved it.
CheckAndEnqueueAtomicWitness ==
    /\ maxPermits >= 1
    /\ \E a \in Acquires : \E r \in Releases :
        /\ path[a] = "queue"
        /\ wokenBy[a] = r
        /\ Pos(entered, r) = Pos(entered, a) + 1

\* permits handed out and not yet given back by a release critical section
GrantedCount ==
    Cardinality({a \in Acquires : Granted(a)})
        - Cardinality({r \in Releases : path[r] /= "none"})

\* C19: when releases are issued only by holders, every state in which no call is
\* inside the critical section has permits + granted = maxPermits, a queued
\* acquire counting as granted from the release that removed its entry.
PermitAccounting ==
    (\A c \in Calls : pc[c] /= "locked") => permits + GrantedCount = maxPermits

\* C19 witness: capacity 2, nobody in the critical section, a permit once went
\* back into the counter, and now both are out, one of them handed to a queued
\* acquire that has not resumed yet.
PermitAccountingWitness ==
    /\ maxPermits = 2
    /\ \A c \in Calls : pc[c] /= "locked"
    /\ permits = 0
    /\ \E a \in Acquires : pc[a] = "resolved"
    /\ \E r \in Releases : path[r] = "increment"

\* C20: release looks at the queue and the counter only, never at who holds a
\* permit: the set of holders is untouched by its critical section, and a release
\* by a caller that holds nothing is ignored exactly when the queue is empty and
\* permits = maxPermits; otherwise it resolves the head waiter or adds one to
\* the counter, just as a holder's release does.
UnpairedReleaseCounts ==
    [][\A c \in Calls :
        (kind[c] = "release" /\ RunsCritical(c)) =>
            /\ holding' = holding
            /\ (waiting = <<>> /\ permits = maxPermits) =>
                  (permits' = permits /\ waiting' = waiting /\ wokenBy' = wokenBy)
            /\ waiting /= <<>> =>
                  /\ wokenBy'[Head(waiting)] = c
                  /\ pc'[Head(waiting)] = "resolved"
                  /\ waiting' = Tail(waiting)
            /\ (waiting = <<>> /\ permits < maxPermits) =>
                  (permits' = permits + 1 /\ waiting' = waiting /\ wokenBy' = wokenBy)]_vars

\* C20 witness: capacity 1; a release by a caller holding nothing went into the
\* counter, and now two callers hold a permit at once.
UnpairedReleaseCountsWitness ==
    /\ maxPermits = 1
    /\ Cardinality(holding) > maxPermits
    /\ \E r \in Releases : owner[r] = 0 /\ path[r] = "increment"

====
